---- MODULE Spec2Model ----
(***************************************************************************)
(* Model of the Actuaries Climate Index computation (XavierMilhaud/        *)
(* ACI-Python): the masking layer, the drought, wind, temperature,         *)
(* precipitation (rolling sum) and sea-level components, the               *)
(* standardization core, the choice of the execution backend and the       *)
(* composite assembler.  The temperature thresholds are modelled for both  *)
(* temperature modules of the repository.                                  *)
(*                                                                         *)
(* Numbers.  Precipitation is held in units of 0.0001 m, mask coverage in  *)
(* tenths, interpolated drought values in twelfths of a day, wind power in *)
(* units of 0.5 * rho.  A standardized value is the exact real             *)
(* num / (den * sqrt(rad))  or one of the IEEE results of a division by    *)
(* zero (NaN, +inf, -inf).  Host memory is held in MiB.                    *)
(*                                                                         *)
(* State.  array and mask are the attributes of the component, v10 the     *)
(* second dataset of the wind component; call is the method being run and  *)
(* ret its outcome.                                                        *)
(*                                                                         *)
(* Grid.  Every operation of the components is element-wise over           *)
(* (latitude, longitude); the model follows one grid cell.                 *)
(***************************************************************************)
EXTENDS Integers, Sequences, FiniteSets, TLC

VARIABLES array, mask, v10, call, ret

vars == <<array, mask, v10, call, ret>>

----------------------------------------------------------------------------
(* Bounds of the model *)

NYears == 2
DaysPerYear == 2
MaxYearly == 4
NMetricYears == 3
NAciMonths == 2
NSteps == 2

(* Program constants *)

FirstYear == 2000
DryThreshold == 10
MaskThreshold == 8

----------------------------------------------------------------------------
(* Values *)

NaN == [nan |-> TRUE]
Num(x) == [nan |-> FALSE, v |-> x]
NoMask == [present |-> FALSE]
NoDataset == [present |-> FALSE]
Mask(coverage) == [present |-> TRUE, country |-> coverage]
NotCalled == [op |-> "none"]
NotReturned == [kind |-> "pending"]

Date(y, m, d) == [year |-> y, month |-> m, day |-> d]
DateNum(t) == (t.year * 12 + (t.month - 1)) * 31 + (t.day - 1)
MonthStart(y, m) == Date(y, m, 1)
MonthEnd(y, m) == Date(y, m, 31)

Sign(x) == IF x < 0 THEN -1 ELSE IF x > 0 THEN 1 ELSE 0

RECURSIVE SumSkipNa(_)
SumSkipNa(s) ==
    IF s = <<>> THEN 0
    ELSE (IF Head(s).nan THEN 0 ELSE Head(s).v) + SumSkipNa(Tail(s))

RECURSIVE SetMax(_)
SetMax(S) ==
    LET x == CHOOSE x \in S : TRUE
    IN IF S = {x} THEN x
       ELSE LET m == SetMax(S \ {x}) IN IF x > m THEN x ELSE m

----------------------------------------------------------------------------
(* Masking layer: Component.apply_mask on one cell *)

(* variant: a cell is retained only above the threshold *)
ApplyMaskStrictlyAbove(obs, country, threshold) ==
    [i \in DOMAIN obs |-> IF country > threshold THEN Num(obs[i]) ELSE NaN]

ApplyMask(obs, country, threshold) ==
    [i \in DOMAIN obs |-> IF country >= threshold THEN Num(obs[i]) ELSE NaN]

Unmasked(obs) == [i \in DOMAIN obs |-> Num(obs[i])]

----------------------------------------------------------------------------
(* Drought metric: DroughtComponent.max_consecutive_dry_days *)

Days == 1..(NYears * DaysPerYear)
Years == FirstYear..(FirstYear + NYears - 1)
DaysOfYear(y) == {d \in Days : FirstYear + ((d - 1) \div DaysPerYear) = y}

ResampleDaySum(tp) == [d \in DOMAIN tp |-> SumSkipNa(tp[d])]

DaysBelowThresholds(perDay) ==
    [d \in DOMAIN perDay |-> IF perDay[d] < DryThreshold THEN 1 ELSE 0]

(* variant: the indicator is not inverted *)
DaysAboveThresholdsNotInverted(below) ==
    [d \in DOMAIN below |-> IF below[d] = 0 THEN 0 ELSE 1]

DaysAboveThresholds(below) ==
    [d \in DOMAIN below |-> IF below[d] = 0 THEN 1 ELSE 0]

RECURSIVE CumSumAt(_, _)
CumSumAt(s, d) == IF d = 0 THEN 0 ELSE s[d] + CumSumAt(s, d - 1)

CumSum(s) == [d \in DOMAIN s |-> CumSumAt(s, d)]

(* cs.where(ind == 0).ffill(dim='time').fillna(0) *)
WhereZeroFfill(cs, ind) ==
    [d \in DOMAIN cs |->
        LET kept == {e \in 1..d : ind[e] = 0}
        IN IF kept = {} THEN 0 ELSE cs[SetMax(kept)]]

RunningCount(tp, cellMask) ==
    LET preci == IF cellMask.present
                 THEN [d \in DOMAIN tp |-> ApplyMask(tp[d], cellMask.country, MaskThreshold)]
                 ELSE [d \in DOMAIN tp |-> Unmasked(tp[d])]
        precipitation_per_day == ResampleDaySum(preci)
        days_below_thresholds == DaysBelowThresholds(precipitation_per_day)
        days_above_thresholds == DaysAboveThresholds(days_below_thresholds)
        cumsum_above == CumSum(days_above_thresholds)
        last == WhereZeroFfill(cumsum_above, days_above_thresholds)
    IN [d \in DOMAIN tp |-> cumsum_above[d] - last[d]]

ResampleYearMax(days) ==
    [y \in Years |-> SetMax({days[d] : d \in DaysOfYear(y)})]

MaxConsecutiveDryDays(tp, cellMask) ==
    ResampleYearMax(RunningCount(tp, cellMask))

----------------------------------------------------------------------------
(* Drought metric: DroughtComponent.drought_interpolate.  The yearly      *)
(* series is a sequence of [time, v]; the monthly values are in twelfths. *)

Twelfths(v) == 12 * v

(* variant: the weights run over months 0..11 *)
InterpolatedValueFromZero(cdd_k, cdd_k_plus_1, month) ==
    (13 - month) * cdd_k + (month - 1) * cdd_k_plus_1

InterpolatedValue(cdd_k, cdd_k_plus_1, month) ==
    (12 - month) * cdd_k + month * cdd_k_plus_1

InterpolatedYear(yearly, i) ==
    [month \in 1..12 |->
        [time |-> MonthStart(yearly[i].time.year, month),
         v |-> InterpolatedValue(yearly[i].v, yearly[i + 1].v, month)]]

(* variant: the last year is interpolated towards zero *)
RepeatedYearTowardsZero(yearly) ==
    LET last == yearly[Len(yearly)]
    IN [month \in 1..12 |->
           [time |-> MonthStart(last.time.year, month),
            v |-> (12 - month) * last.v]]

RepeatedYear(yearly) ==
    LET last == yearly[Len(yearly)]
    IN [month \in 1..12 |->
           [time |-> MonthStart(last.time.year, month), v |-> Twelfths(last.v)]]

RECURSIVE InterpolatedYears(_, _)
InterpolatedYears(yearly, i) ==
    IF i > Len(yearly) - 1 THEN <<>>
    ELSE InterpolatedYear(yearly, i) \o InterpolatedYears(yearly, i + 1)

(* variant: the repeated last year is put before the interpolated years *)
DroughtInterpolateLastYearFirst(yearly) ==
    RepeatedYear(yearly) \o InterpolatedYears(yearly, 1)

DroughtInterpolate(yearly) ==
    InterpolatedYears(yearly, 1) \o RepeatedYear(yearly)

(* the DataArray that resample(time='Y') returns: one entry per year, *)
(* labelled with the last day of the year                              *)
YearlySeries(byYear) ==
    [i \in 1..NYears |->
        [time |-> MonthEnd(FirstYear + i - 1, 12), v |-> byYear[FirstYear + i - 1]]]

----------------------------------------------------------------------------
(* Standardization core: Component.standardize_metric *)

ZNaN == [kind |-> "nan"]
ZInf(sign) == [kind |-> IF sign > 0 THEN "inf" ELSE "-inf"]
ZFinite(n, d, r) == [kind |-> "finite", num |-> n, den |-> d, rad |-> r]

InPeriod(t, period) ==
    DateNum(period[1]) <= DateNum(t) /\ DateNum(t) <= DateNum(period[2])

SelTimeSlice(metric, period) ==
    SelectSeq(metric, LAMBDA p : InPeriod(p.time, period))

RECURSIVE SeqSum(_)
SeqSum(s) == IF s = <<>> THEN 0 ELSE Head(s) + SeqSum(Tail(s))

SeqSumSq(s) == SeqSum([i \in DOMAIN s |-> s[i] * s[i]])

MonthValues(series, c) ==
    LET sel == SelectSeq(series, LAMBDA p : p.time.month = c)
    IN [i \in DOMAIN sel |-> sel[i].v]

MonthsOf(series) == {series[i].time.month : i \in DOMAIN series}

(* variant: the mean of the whole reference slice, not of the month *)
GroupMeanUngrouped(reference) ==
    [c \in MonthsOf(reference) |->
        LET vals == [i \in DOMAIN reference |-> reference[i].v]
        IN [num |-> SeqSum(vals), den |-> Len(vals)]]

(* groupby("time.month").mean(): the rational num / den *)
GroupMean(reference) ==
    [c \in MonthsOf(reference) |->
        LET vals == MonthValues(reference, c)
        IN [num |-> SeqSum(vals), den |-> Len(vals)]]

(* variant: the sample standard deviation, ddof = 1 *)
GroupStdSample(reference) ==
    [c \in MonthsOf(reference) |->
        LET vals == MonthValues(reference, c)
            n == Len(vals)
        IN [rad |-> (n * SeqSumSq(vals) - SeqSum(vals) * SeqSum(vals)) * n * (n - 1),
            den |-> n * (n - 1)]]

(* groupby("time.month").std(), ddof = 0: the real sqrt(rad) / den *)
GroupStd(reference) ==
    [c \in MonthsOf(reference) |->
        LET vals == MonthValues(reference, c)
            n == Len(vals)
        IN [rad |-> n * SeqSumSq(vals) - SeqSum(vals) * SeqSum(vals), den |-> n]]

(* variant: a zero standard deviation always gives no-data *)
StandardizedNoInf(value, mean, std) ==
    LET diff == value * mean.den - mean.num
    IN IF std.rad = 0
       THEN ZNaN
       ELSE ZFinite(diff * std.den, mean.den, std.rad)

(* variant: a zero standard deviation is replaced by a zero anomaly *)
StandardizedZeroGuard(value, mean, std) ==
    LET diff == value * mean.den - mean.num
    IN IF std.rad = 0
       THEN ZFinite(0, 1, 1)
       ELSE ZFinite(diff * std.den, mean.den, std.rad)

(* (value - mean) / std in IEEE arithmetic *)
Standardized(value, mean, std) ==
    LET diff == value * mean.den - mean.num
    IN IF std.rad = 0
       THEN (IF diff = 0 THEN ZNaN ELSE ZInf(diff))
       ELSE ZFinite(diff * std.den, mean.den, std.rad)

StandardizeMetric(metric, reference_period) ==
    LET reference == SelTimeSlice(metric, reference_period)
        mean == GroupMean(reference)
        std == GroupStd(reference)
    IN IF \E i \in DOMAIN metric : metric[i].time.month \notin DOMAIN mean
       THEN [kind |-> "raised", error |-> "KeyError"]
       ELSE [kind |-> "returned",
             val |-> [i \in DOMAIN metric |->
                        [time |-> metric[i].time,
                         v |-> Standardized(metric[i].v,
                                            mean[metric[i].time.month],
                                            std[metric[i].time.month])]]]

----------------------------------------------------------------------------
(* Drought metric: DroughtComponent.calculate_component *)

CalculateComponent(tp, cellMask, reference_period) ==
    LET max_days_drought_per_year == YearlySeries(MaxConsecutiveDryDays(tp, cellMask))
        monthly_values == DroughtInterpolate(max_days_drought_per_year)
    IN StandardizeMetric(monthly_values, reference_period)

----------------------------------------------------------------------------
(* The drought component on one cell.  A day holds either one            *)
(* observation or two half-day observations.  The methods leave the      *)
(* component as it is, so a behaviour follows one call on it.            *)

DryDay == <<0>>
LowDay == <<5>>
WetDay == <<5, 5>>

PrecipInputs ==
    [Days -> {DryDay, WetDay}] \cup {[d \in Days |-> LowDay]}

CellMasks == {NoMask, Mask(5), Mask(10)}

DroughtReferencePeriods ==
    {<<MonthStart(a, 1), MonthEnd(b, 12)>> : a \in Years, b \in Years}
        \cup {<<MonthStart(FirstYear, 1), MonthEnd(FirstYear, 6)>>}

InitDrought ==
    /\ array \in PrecipInputs
    /\ mask \in CellMasks
    /\ v10 = NoDataset
    /\ call = NotCalled
    /\ ret = NotReturned

CallMaxConsecutiveDryDays ==
    /\ call = NotCalled
    /\ call' = [op |-> "max_consecutive_dry_days"]
    /\ ret' = [kind |-> "returned",
               days |-> RunningCount(array, mask),
               val |-> YearlySeries(MaxConsecutiveDryDays(array, mask))]
    /\ UNCHANGED <<array, mask, v10>>

CallCalculateComponent ==
    /\ call = NotCalled
    /\ \E reference_period \in DroughtReferencePeriods :
      /\ call' = [op |-> "calculate_component", reference_period |-> reference_period]
      /\ ret' = CalculateComponent(array, mask, reference_period)
      /\ UNCHANGED <<array, mask, v10>>

NextDrought == CallMaxConsecutiveDryDays \/ CallCalculateComponent

SpecDrought == InitDrought /\ [][NextDrought]_vars

----------------------------------------------------------------------------
(* drought_interpolate on any yearly series of consecutive years *)

YearlyValues == {0, 10, 20}

YearlyInputs ==
    UNION {[1..n -> YearlyValues] : n \in 1..MaxYearly}

YearlyArgument(values) ==
    [i \in DOMAIN values |->
        [time |-> MonthEnd(FirstYear + i - 1, 12), v |-> values[i]]]

InitInterpolate ==
    /\ array = <<>>
    /\ mask = NoMask
    /\ v10 = NoDataset
    /\ call = NotCalled
    /\ ret = NotReturned

CallDroughtInterpolate ==
    /\ call = NotCalled
    /\ \E values \in YearlyInputs :
      /\ call' = [op |-> "drought_interpolate",
                  max_days_drought_per_year |-> YearlyArgument(values)]
      /\ ret' = [kind |-> "returned",
                 val |-> DroughtInterpolate(YearlyArgument(values))]
      /\ UNCHANGED <<array, mask, v10>>

NextInterpolate == CallDroughtInterpolate

SpecInterpolate == InitInterpolate /\ [][NextInterpolate]_vars

----------------------------------------------------------------------------
(* standardize_metric on any monthly metric series of one cell.  The     *)
(* series carries the months MetricMonths of NMetricYears years, each    *)
(* labelled with its last day, as resample(time='M') labels them.        *)

MetricMonths == {1, 2}
MetricValues == {1, 3}
MetricYears == FirstYear..(FirstYear + NMetricYears - 1)
MetricLength == NMetricYears * Cardinality(MetricMonths)

MetricTime(i) ==
    LET k == Cardinality(MetricMonths)
    IN MonthEnd(FirstYear + ((i - 1) \div k), ((i - 1) % k) + 1)

MetricInputs ==
    {[i \in 1..MetricLength |-> [time |-> MetricTime(i), v |-> values[i]]] :
        values \in [1..MetricLength -> MetricValues]}

MetricReferencePeriods ==
    {p \in {<<MonthStart(a, m), MonthEnd(b, n)>> :
                a \in MetricYears, m \in MetricMonths,
                b \in MetricYears, n \in MetricMonths} :
        DateNum(p[1]) <= DateNum(p[2])}

InitStandardize ==
    /\ array = <<>>
    /\ mask = NoMask
    /\ v10 = NoDataset
    /\ call = NotCalled
    /\ ret = NotReturned

CallStandardizeMetric ==
    /\ call = NotCalled
    /\ \E metric \in MetricInputs, reference_period \in MetricReferencePeriods :
      /\ call' = [op |-> "standardize_metric", metric |-> metric,
                  reference_period |-> reference_period]
      /\ ret' = StandardizeMetric(metric, reference_period)
      /\ UNCHANGED <<array, mask, v10>>

NextStandardize == CallStandardizeMetric

SpecStandardize == InitStandardize /\ [][NextStandardize]_vars

----------------------------------------------------------------------------
(* Composite assembler: ActuarialClimateIndex.calculate_aci (aci.py) and *)
(* ActuarialClimateIndex.ACI (ActuarialClimateIndex.py).  A standardized *)
(* series is a function from its timestamps to rationals or no-data; a   *)
(* table has named columns and one row per index entry.                  *)

Rat(n, d) == [nan |-> FALSE, num |-> n, den |-> d]

RAdd(a, b) ==
    IF a.nan \/ b.nan THEN NaN
    ELSE Rat(a.num * b.den + b.num * a.den, a.den * b.den)
RSub(a, b) ==
    IF a.nan \/ b.nan THEN NaN
    ELSE Rat(a.num * b.den - b.num * a.den, a.den * b.den)
RScale(k, a) == IF a.nan THEN NaN ELSE Rat(k * a.num, a.den)
RDivide(a, k) == IF a.nan THEN NaN ELSE Rat(a.num, a.den * k)

(* DataFrame.mean(axis=1): the mean of the stations that have a value *)
StationMean(stations) ==
    LET valid == SelectSeq(stations, LAMBDA x : ~x.nan)
    IN IF valid = <<>> THEN NaN
       ELSE Rat(SeqSum([i \in DOMAIN valid |-> valid[i].num]), Len(valid))

(* timestamp + MonthEnd(): the next month end *)
PlusMonthEnd(t) ==
    IF t.day < 31 THEN MonthEnd(t.year, t.month)
    ELSE IF t.month = 12 THEN MonthEnd(t.year + 1, 1)
    ELSE MonthEnd(t.year, t.month + 1)

SeaFrame(sea_lev) ==
    LET stamped == {PlusMonthEnd(t) : t \in DOMAIN sea_lev}
    IN [u \in stamped |->
           StationMean(sea_lev[CHOOSE t \in DOMAIN sea_lev : PlusMonthEnd(t) = u])]

Frame(name, series) ==
    [columns |-> <<name>>, rows |-> [t \in DOMAIN series |-> (name :> series[t])]]

(* variant: the join also drops the timestamps whose value is no-data *)
MergeDropNa(left, name, series) ==
    [columns |-> Append(left.columns, name),
     rows |-> [t \in {u \in (DOMAIN left.rows) \cap (DOMAIN series) : ~series[u].nan} |->
                  left.rows[t] @@ (name :> series[t])]]

(* pd.merge(left, right[name], left_index=True, right_index=True) *)
Merge(left, name, series) ==
    [columns |-> Append(left.columns, name),
     rows |-> [t \in (DOMAIN left.rows) \cap (DOMAIN series) |->
                  left.rows[t] @@ (name :> series[t])]]

(* variant: an omitted erosion factor counts as 0 *)
ErosionFactorOrZero(factor) == IF factor.given THEN factor.v ELSE 0

ErosionFactor(factor) == IF factor.given THEN factor.v ELSE 1

AciOfRow(row, factor) ==
    RDivide(RAdd(RAdd(RAdd(RAdd(RSub(row["T90"], row["T10"]),
                                row["precipitation"]),
                           row["drought"]),
                      RScale(factor, row["sea_mean"])),
                 row["windpower"]),
            6)

(* variant: an empty join is returned as it is, without the ACI column *)
CalculateAciOfRows(in, factor) ==
    LET f == ErosionFactor(factor)
        df1 == Merge(Frame("windpower", in.windpower), "precipitation", in.precipitation)
        df2 == Merge(df1, "drought", in.drought)
        df3 == Merge(df2, "sea_mean", SeaFrame(in.sea_lev))
        df4 == Merge(df3, "T90", in.T90)
        aci_composites == Merge(df4, "T10", in.T10)
    IN IF DOMAIN aci_composites.rows = {} THEN aci_composites
       ELSE [columns |-> Append(aci_composites.columns, "ACI"),
             rows |-> [t \in DOMAIN aci_composites.rows |->
                          aci_composites.rows[t]
                              @@ ("ACI" :> AciOfRow(aci_composites.rows[t], f))]]

CalculateAci(in, factor) ==
    LET f == ErosionFactor(factor)
        df1 == Merge(Frame("windpower", in.windpower), "precipitation", in.precipitation)
        df2 == Merge(df1, "drought", in.drought)
        df3 == Merge(df2, "sea_mean", SeaFrame(in.sea_lev))
        df4 == Merge(df3, "T90", in.T90)
        aci_composites == Merge(df4, "T10", in.T10)
    IN [columns |-> Append(aci_composites.columns, "ACI"),
        rows |-> [t \in DOMAIN aci_composites.rows |->
                     aci_composites.rows[t] @@ ("ACI" :> AciOfRow(aci_composites.rows[t], f))]]

(* The outputs of the five components.  Either every series covers the   *)
(* whole timeline and takes any of its values, or every series takes its *)
(* usual value and covers any of the index sets.  The resampled metrics  *)
(* stamp a month at its last day and the sea-level table at its first;   *)
(* the drought series is stamped at the last day by the resampling of    *)
(* droughtcomponent.py and at the first day by drought_interpolate of    *)
(* components/drought.py.                                                *)

AciMonths == 1..NAciMonths
AciIndexSets == {AciMonths, {1}, {NAciMonths}}
SeriesNames == {"windpower", "precipitation", "drought", "T90", "T10"}
SeriesValues == {Rat(1, 1), Rat(-2, 1), NaN}
StationValues == {<<Rat(1, 1), Rat(2, 1)>>, <<NaN, Rat(-2, 1)>>, <<NaN, NaN>>}
UsualValue ==
    [windpower |-> Rat(1, 1), precipitation |-> Rat(2, 1), drought |-> Rat(4, 1),
     T90 |-> Rat(8, 1), T10 |-> Rat(16, 1)]
UsualStations == <<Rat(32, 1), Rat(33, 1)>>
ErosionFactors == {[given |-> FALSE], [given |-> TRUE, v |-> 3]}

ConstantSeries(months, value, day) ==
    [t \in {Date(FirstYear, m, day) : m \in months} |-> value]

ComponentOutputs(months, value, sea_months, stations, drought_day) ==
    [windpower |-> ConstantSeries(months["windpower"], value["windpower"], 31),
     precipitation |-> ConstantSeries(months["precipitation"], value["precipitation"], 31),
     drought |-> ConstantSeries(months["drought"], value["drought"], drought_day),
     T90 |-> ConstantSeries(months["T90"], value["T90"], 31),
     T10 |-> ConstantSeries(months["T10"], value["T10"], 31),
     sea_lev |-> ConstantSeries(sea_months, stations, 1)]

AciInputs ==
    {ComponentOutputs([n \in SeriesNames |-> AciMonths], value, AciMonths, stations, 31) :
        value \in [SeriesNames -> SeriesValues], stations \in StationValues}
    \cup
    {ComponentOutputs(months, UsualValue, sea_months, UsualStations, 31) :
        months \in [SeriesNames -> AciIndexSets], sea_months \in AciIndexSets}
    \cup
    {ComponentOutputs([n \in SeriesNames |-> AciMonths], UsualValue, AciMonths,
                      stations, drought_day) :
        stations \in StationValues, drought_day \in {31, 1}}

InitAci ==
    /\ array = <<>>
    /\ mask = NoMask
    /\ v10 = NoDataset
    /\ call = NotCalled
    /\ ret = NotReturned

CallCalculateAci ==
    /\ call = NotCalled
    /\ \E in \in AciInputs, factor \in ErosionFactors :
      /\ call' = [op |-> "calculate_aci", components |-> in, factor |-> factor]
      /\ ret' = [kind |-> "returned", val |-> CalculateAci(in, factor)]
      /\ UNCHANGED <<array, mask, v10>>

NextAci == CallCalculateAci

SpecAci == InitAci /\ [][NextAci]_vars

----------------------------------------------------------------------------
(* Component.apply_mask as a method of a component.  A dataset holds the  *)
(* series of its variables at one cell; a component whose data or mask    *)
(* was not loaded holds None in its place.                                *)

Dataset(name, series) == [present |-> TRUE, vars |-> (name :> series)]
Raised(error) == [kind |-> "raised", error |-> error]
Returned(val) == [kind |-> "returned", val |-> val]

Omitted == [given |-> FALSE]
Given(x) == [given |-> TRUE, v |-> x]
ThresholdOf(threshold) == IF threshold.given THEN threshold.v ELSE MaskThreshold

(* variant: without a mask every cell is retained *)
ApplyMaskMethodMaskOptional(self_array, self_mask, var_name, threshold) ==
    IF ~self_array.present
    THEN Raised("ValueError")
    ELSE IF var_name \notin DOMAIN self_array.vars
    THEN Raised("KeyError")
    ELSE Returned(
             [present |-> TRUE,
              vars |-> [v \in DOMAIN self_array.vars |->
                          IF v = var_name /\ self_mask.present
                          THEN ApplyMask(self_array.vars[v], self_mask.country,
                                         ThresholdOf(threshold))
                          ELSE Unmasked(self_array.vars[v])]])

ApplyMaskMethod(self_array, self_mask, var_name, threshold) ==
    IF ~self_array.present \/ ~self_mask.present
    THEN Raised("ValueError")
    ELSE IF var_name \notin DOMAIN self_array.vars
    THEN Raised("KeyError")
    ELSE Returned(
             [present |-> TRUE,
              vars |-> [v \in DOMAIN self_array.vars |->
                          IF v = var_name
                          THEN ApplyMask(self_array.vars[v], self_mask.country,
                                         ThresholdOf(threshold))
                          ELSE Unmasked(self_array.vars[v])]])

GridSeries == [1..NSteps -> {1, 2}]

InitMask ==
    /\ array \in {NoDataset} \cup {Dataset("u10", s) : s \in GridSeries}
    /\ mask \in {NoMask} \cup {Mask(c) : c \in {0, 5, 7, 8, 9, 10}}
    /\ v10 = NoDataset
    /\ call = NotCalled
    /\ ret = NotReturned

CallApplyMask ==
    /\ call = NotCalled
    /\ \E var_name \in {"u10", "v10"}, threshold \in {Omitted, Given(5), Given(9)} :
      /\ call' = [op |-> "apply_mask", var_name |-> var_name, threshold |-> threshold]
      /\ ret' = ApplyMaskMethod(array, mask, var_name, threshold)
      /\ UNCHANGED <<array, mask, v10>>

NextMask == CallApplyMask

SpecMask == InitMask /\ [][NextMask]_vars

----------------------------------------------------------------------------
(* Wind metric: WindComponent.  The cell has one observation per day, on  *)
(* the days WindDoys of January of each year; wind power is held in units *)
(* of 0.5 * rho, so that it is the cube of the daily mean wind speed.     *)

(* 1.28 *)
ThresholdFactor == [num |-> 32, den |-> 25]

WindDoys == {1, 2}
WindDays == 1..(NMetricYears * Cardinality(WindDoys))
WindTime(d) ==
    LET k == Cardinality(WindDoys)
    IN Date(FirstYear + ((d - 1) \div k), 1, ((d - 1) % k) + 1)

Sqrt(n) == CHOOSE r \in 0..n : r * r = n

(* 0.5 * rho * sqrt(u10**2 + v10**2).resample(time='D').mean() ** 3 *)
DailyWindPower(u, v) ==
    [d \in DOMAIN u |->
        [time |-> WindTime(d),
         v |-> IF u[d].nan \/ v[d].nan THEN NaN
               ELSE LET ws == Sqrt(u[d].v * u[d].v + v[d].v * v[d].v)
                    IN Num(ws * ws * ws)]]

(* self.array is replaced by self.v10 while v10 is masked, and put back  *)
(* by the statement that follows the masking                             *)
WindPower(self_array, self_v10, self_mask, reference_period) ==
    LET masked_u == ApplyMaskMethod(self_array, self_mask, "u10", Omitted)
        masked_v == ApplyMaskMethod(self_v10, self_mask, "v10", Omitted)
        wind_power == DailyWindPower(masked_u.val.vars["u10"], masked_v.val.vars["v10"])
    IN IF masked_u.kind = "raised" THEN [ret |-> masked_u, array |-> self_array]
       ELSE IF masked_v.kind = "raised" THEN [ret |-> masked_v, array |-> self_v10]
       ELSE [ret |-> Returned(IF reference_period.given
                              THEN SelTimeSlice(wind_power, reference_period.v)
                              ELSE wind_power),
             array |-> self_array]

(* variant: the statistics are taken over the whole series *)
WindThresholdsOfWholeSeries(wind_power, reference_period) ==
    LET Valid(doy) ==
            SelectSeq(wind_power, LAMBDA p : p.time.day = doy /\ ~p.v.nan)
    IN Returned(
           [i \in DOMAIN wind_power |->
              [time |-> wind_power[i].time,
               v |-> LET sel == Valid(wind_power[i].time.day)
                         vals == [j \in DOMAIN sel |-> sel[j].v.v]
                         n == Len(vals)
                     IN IF n = 0 THEN NaN
                        ELSE [nan |-> FALSE,
                              mean |-> [num |-> SeqSum(vals), den |-> n],
                              times |-> ThresholdFactor,
                              std |-> [rad |-> n * SeqSumSq(vals)
                                                 - SeqSum(vals) * SeqSum(vals),
                                       den |-> n]]]])

(* groupby("time.dayofyear").mean() + 1.28 * groupby(...).std() of the   *)
(* reference slice, selected at the day of year of every day: the value  *)
(* mean + times * std                                                    *)
WindThresholds(wind_power, reference_period) ==
    LET wind_power_reference == SelTimeSlice(wind_power, reference_period)
        Valid(doy) ==
            SelectSeq(wind_power_reference, LAMBDA p : p.time.day = doy /\ ~p.v.nan)
    IN IF \E i \in DOMAIN wind_power :
            \A j \in DOMAIN wind_power_reference :
                wind_power_reference[j].time.day # wind_power[i].time.day
       THEN Raised("KeyError")
       ELSE Returned(
           [i \in DOMAIN wind_power |->
              [time |-> wind_power[i].time,
               v |-> LET sel == Valid(wind_power[i].time.day)
                         vals == [j \in DOMAIN sel |-> sel[j].v.v]
                         n == Len(vals)
                     IN IF n = 0 THEN NaN
                        ELSE [nan |-> FALSE,
                              mean |-> [num |-> SeqSum(vals), den |-> n],
                              times |-> ThresholdFactor,
                              std |-> [rad |-> n * SeqSumSq(vals)
                                                 - SeqSum(vals) * SeqSum(vals),
                                       den |-> n]]]])

(* xr.where(thresholds - wind_power < 0, 1, 0) *)
WindDaysAboveThresholds(thresholds, wind_power) ==
    [i \in DOMAIN wind_power |->
        [time |-> wind_power[i].time,
         v |-> IF thresholds[i].v.nan \/ wind_power[i].v.nan THEN 0
               ELSE LET t == thresholds[i].v
                        excess == wind_power[i].v.v * t.mean.den - t.mean.num
                    IN IF /\ excess > 0
                          /\ t.times.den * t.times.den * excess * excess
                                 > t.times.num * t.times.num * t.std.rad
                       THEN 1 ELSE 0]]

(* resample(time='m').sum() / resample(time='m').count() *)
WindExceedanceFrequency(days_above_thresholds) ==
    LET years == {days_above_thresholds[i].time.year : i \in DOMAIN days_above_thresholds}
        first == CHOOSE y \in years : \A z \in years : y <= z
        OfYear(y) == SelectSeq(days_above_thresholds, LAMBDA p : p.time.year = y)
    IN [k \in 1..Cardinality(years) |->
          LET days == OfYear(first + k - 1)
          IN [time |-> MonthEnd(first + k - 1, 1),
              v |-> Rat(SeqSum([j \in DOMAIN days |-> days[j].v]), Len(days))]]

(* the method called, up to the metric asked for: "wind_thresholds",     *)
(* "wind_exceedance_frequency" or "std_wind_exceedance_frequency"        *)
WindMetric(self_array, self_v10, self_mask, metric, reference_period) ==
    LET power == WindPower(self_array, self_v10, self_mask, Omitted)
        thresholds == WindThresholds(power.ret.val, reference_period)
        frequency == WindExceedanceFrequency(
                         WindDaysAboveThresholds(thresholds.val, power.ret.val))
    IN IF power.ret.kind = "raised" THEN power
       ELSE IF thresholds.kind = "raised" \/ metric = "wind_thresholds"
       THEN [ret |-> thresholds, array |-> self_array]
       ELSE IF metric = "wind_exceedance_frequency"
       THEN [ret |-> Returned(frequency), array |-> self_array]
       ELSE [ret |-> StandardizeMetric(
                         [k \in DOMAIN frequency |->
                            [time |-> frequency[k].time, v |-> frequency[k].v.num]],
                         reference_period),
             array |-> self_array]

WindPairs == {<<0, 1>>, <<3, 4>>}
WindReferencePeriods ==
    {p \in {<<Date(a, 1, 1), Date(b, 1, e)>> :
                a \in MetricYears, b \in MetricYears, e \in {1, 31}} :
        DateNum(p[1]) <= DateNum(p[2])}

InitWind ==
    /\ \E wind \in [WindDays -> WindPairs] :
         /\ array = Dataset("u10", [d \in WindDays |-> wind[d][1]])
         /\ v10 \in {Dataset(name, [d \in WindDays |-> wind[d][2]]) : name \in {"v10", "v"}}
    /\ mask \in {Mask(5), Mask(10)}
    /\ call = NotCalled
    /\ ret = NotReturned

CallWindPower ==
    /\ call = NotCalled
    /\ \E reference_period \in {Omitted} \cup {Given(p) : p \in WindReferencePeriods} :
      LET result == WindPower(array, v10, mask, reference_period)
      IN /\ call' = [op |-> "wind_power", reference_period |-> reference_period]
         /\ ret' = result.ret
         /\ array' = result.array
         /\ UNCHANGED <<mask, v10>>

CallWindMetric ==
    /\ call = NotCalled
    /\ \E metric \in {"wind_thresholds", "wind_exceedance_frequency",
                      "std_wind_exceedance_frequency"},
          reference_period \in WindReferencePeriods :
      LET result == WindMetric(array, v10, mask, metric, reference_period)
      IN /\ call' = [op |-> metric, reference_period |-> reference_period]
         /\ ret' = result.ret
         /\ array' = result.array
         /\ UNCHANGED <<mask, v10>>

NextWind == CallWindPower \/ CallWindMetric \/ CallApplyMask

SpecWind == InitWind /\ [][NextWind]_vars

----------------------------------------------------------------------------
(* Sea level: SeaLevelComponent.  A table is a sequence of rows, each    *)
(* with its index value and one cell per station.  The raw index is the  *)
(* float of the data files, held as its year and the digits that str()   *)
(* prints after the point.  Row means are held in units of 1 / (number   *)
(* of stations), which is exact for the two stations of the model.       *)

Sentinel == -99999

MonthMapping ==
    (<<0, 4, 1, 7>> :> 1) @@ (<<1, 2, 5>> :> 2) @@ (<<2, 0, 8, 3>> :> 3)
        @@ (<<2, 9, 1, 7>> :> 4) @@ (<<3, 7, 5>> :> 5) @@ (<<4, 5, 8, 3>> :> 6)
        @@ (<<5, 4, 1, 7>> :> 7) @@ (<<6, 2, 5>> :> 8) @@ (<<7, 0, 8, 3>> :> 9)
        @@ (<<7, 9, 1, 7>> :> 10) @@ (<<8, 7, 5>> :> 11) @@ (<<9, 5, 8, 3>> :> 12)

(* sort_index(): insertion of each row after the rows not later than it *)
RECURSIVE SortIndex(_)
SortIndex(rows) ==
    IF rows = <<>> THEN <<>>
    ELSE LET rest == SortIndex(Tail(rows))
             before == SelectSeq(rest, LAMBDA r : DateNum(r.time) < DateNum(Head(rows).time))
             after == SelectSeq(rest, LAMBDA r : DateNum(r.time) >= DateNum(Head(rows).time))
         IN before \o <<Head(rows)>> \o after

(* variant: the index is left in the order of the files *)
CorrectDateFormatUnsorted(data) ==
    LET Fraction(date) ==
            SubSeq(date.digits, 1, IF Len(date.digits) < 4 THEN Len(date.digits) ELSE 4)
        dated == SelectSeq(data, LAMBDA r : Fraction(r.date) \in DOMAIN MonthMapping)
    IN [i \in DOMAIN dated |->
          [time |-> Date(dated[i].date.year, MonthMapping[Fraction(dated[i].date)], 1),
           v |-> dated[i].v]]

CorrectDateFormat(data) ==
    LET Fraction(date) ==
            SubSeq(date.digits, 1, IF Len(date.digits) < 4 THEN Len(date.digits) ELSE 4)
        dated == SelectSeq(data, LAMBDA r : Fraction(r.date) \in DOMAIN MonthMapping)
    IN SortIndex([i \in DOMAIN dated |->
                    [time |-> Date(dated[i].date.year, MonthMapping[Fraction(dated[i].date)], 1),
                     v |-> dated[i].v]])

(* variant: only the first station is cleaned *)
CleanDataOfFirstStation(data) ==
    [i \in DOMAIN data |->
        [time |-> data[i].time,
         v |-> [k \in DOMAIN data[i].v |->
                  IF k = 1 /\ data[i].v[k] = Num(Sentinel) THEN NaN ELSE data[i].v[k]]]]

(* data.replace(-99999.0, np.nan) *)
CleanData(data) ==
    [i \in DOMAIN data |->
        [time |-> data[i].time,
         v |-> [k \in DOMAIN data[i].v |->
                  IF data[i].v[k] = Num(Sentinel) THEN NaN ELSE data[i].v[k]]]]

(* variant: the end of the period belongs to it *)
PeriodMaskWithEnd(data, period) ==
    SelectSeq(data, LAMBDA r : /\ DateNum(r.time) >= DateNum(period[1])
                               /\ DateNum(r.time) <= DateNum(period[2]))

(* data[(data.index >= period[0]) & (data.index < period[1])] *)
PeriodMask(data, period) ==
    SelectSeq(data, LAMBDA r : /\ DateNum(r.time) >= DateNum(period[1])
                               /\ DateNum(r.time) < DateNum(period[2]))

(* compute_monthly_stats: mean(axis=1) of the reference rows, then the   *)
(* mean num / den or the sample standard deviation sqrt(rad) / den of    *)
(* each calendar month, no-data without enough valid row means           *)
ComputeMonthlyStats(data, reference_period, stats) ==
    LET data_ref == PeriodMask(data, reference_period)
        RowMean(cells) ==
            LET valid == SelectSeq(cells, LAMBDA x : ~x.nan)
            IN IF valid = <<>> THEN NaN
               ELSE Num((SeqSum([k \in DOMAIN valid |-> valid[k].v]) * Len(cells))
                            \div Len(valid))
        mean_ref == [i \in DOMAIN data_ref |->
                       [time |-> data_ref[i].time, v |-> RowMean(data_ref[i].v)]]
        Values(c) ==
            LET sel == SelectSeq(mean_ref, LAMBDA p : p.time.month = c /\ ~p.v.nan)
            IN [j \in DOMAIN sel |-> sel[j].v.v]
        months == {mean_ref[i].time.month : i \in DOMAIN mean_ref}
    IN IF stats = "means"
       THEN Returned([c \in months |->
                LET vals == Values(c)
                IN IF Len(vals) = 0 THEN NaN
                   ELSE [nan |-> FALSE, num |-> SeqSum(vals), den |-> Len(vals)]])
       ELSE IF stats = "std"
       THEN Returned([c \in months |->
                LET vals == Values(c)
                    n == Len(vals)
                IN IF n < 2 THEN NaN
                   ELSE [nan |-> FALSE,
                         rad |-> (n * SeqSumSq(vals) - SeqSum(vals) * SeqSum(vals))
                                     * n * (n - 1),
                         den |-> n * (n - 1)]])
       ELSE Raised("Exception")

StandardizeData(data, monthly_means, monthly_std_devs, study_period) ==
    LET data_study == PeriodMask(data, study_period)
        First(i) ==
            CHOOSE j \in DOMAIN data_study :
                /\ data_study[j].time.month = data_study[i].time.month
                /\ data_study[j].time.year = data_study[i].time.year
                /\ \A k \in 1..(j - 1) :
                       \/ data_study[k].time.month # data_study[i].time.month
                       \/ data_study[k].time.year # data_study[i].time.year
        ZScore(cell, mean, std) ==
            IF cell.nan \/ mean.nan \/ std.nan THEN ZNaN
            ELSE Standardized(cell.v * Len(data_study[1].v), mean, std)
    IN IF data_study = <<>>
       THEN Raised("ValueError")
       ELSE IF \E i \in DOMAIN data_study :
                   \/ data_study[i].time.month \notin DOMAIN monthly_means
                   \/ data_study[i].time.month \notin DOMAIN monthly_std_devs
       THEN Raised("KeyError")
       ELSE Returned(
                [i \in DOMAIN data_study |->
                    [time |-> data_study[i].time,
                     v |-> [k \in DOMAIN data_study[i].v |->
                              ZScore(data_study[First(i)].v[k],
                                     monthly_means[data_study[i].time.month],
                                     monthly_std_devs[data_study[i].time.month])]]])

(* The files hold January and February of each year, the later years    *)
(* first, and one more row: its index is not the float of a month, or   *)
(* is a second float of the first January.                              *)
SeaCells ==
    {<<Num(3), Num(1)>>, <<Num(Sentinel), Num(1)>>, <<Num(Sentinel), Num(Sentinel)>>}
SeaDates ==
    [i \in 1..(2 * NYears) |->
        [year |-> FirstYear + NYears - 1 - ((i - 1) \div 2),
         digits |-> IF i % 2 = 1 THEN <<0, 4, 1, 7>> ELSE <<1, 2, 5>>]]
SeaFiles ==
    {[i \in 1..(2 * NYears + 1) |->
        IF i <= 2 * NYears THEN [date |-> SeaDates[i], v |-> cells[i]]
        ELSE [date |-> [year |-> FirstYear, digits |-> digits],
              v |-> <<Num(1), Num(1)>>]] :
            cells \in [1..(2 * NYears) -> SeaCells],
            digits \in {<<0, 1, 1, 2, 5>>, <<0, 4, 1, 7, 5>>}}
SeaStudyPeriods ==
    {<<Date(FirstYear, 1, 1), Date(FirstYear + NYears, 1, 1)>>,
     <<Date(FirstYear, 2, 1), Date(FirstYear + 1, 2, 1)>>,
     <<Date(FirstYear - 1, 1, 1), Date(FirstYear, 1, 1)>>}
SeaReferencePeriods ==
    {<<Date(FirstYear, 1, 1), Date(FirstYear + NYears, 1, 1)>>,
     <<Date(FirstYear, 1, 1), Date(FirstYear + NYears - 1, 2, 1)>>,
     <<Date(FirstYear, 1, 1), Date(FirstYear, 2, 1)>>}

(* array holds the component: the files of its directory and its periods *)
InitSeaLevel ==
    /\ array \in [directory : SeaFiles, study_period : SeaStudyPeriods,
                  reference_period : SeaReferencePeriods]
    /\ mask = NoMask
    /\ v10 = NoDataset
    /\ call = NotCalled
    /\ ret = NotReturned

(* process(): its statements, one at a time; ret holds its local         *)
(* variables until it returns or raises                                  *)
ProcessLoadData ==
    /\ call = NotCalled
    /\ call' = [op |-> "process", next |-> "correct_date_format"]
    /\ ret' = [kind |-> "running", sea_level_data |-> array.directory]
    /\ UNCHANGED <<array, mask, v10>>

ProcessCorrectDateFormat ==
    /\ call.op = "process" /\ call.next = "correct_date_format"
    /\ call' = [call EXCEPT !.next = "clean_data"]
    /\ ret' = [ret EXCEPT !.sea_level_data = CorrectDateFormat(ret.sea_level_data)]
    /\ UNCHANGED <<array, mask, v10>>

ProcessCleanData ==
    /\ call.op = "process" /\ call.next = "clean_data"
    /\ call' = [call EXCEPT !.next = "compute_monthly_stats"]
    /\ ret' = [ret EXCEPT !.sea_level_data = CleanData(ret.sea_level_data)]
    /\ UNCHANGED <<array, mask, v10>>

ProcessComputeMonthlyStats ==
    /\ call.op = "process" /\ call.next = "compute_monthly_stats"
    /\ call' = [call EXCEPT !.next = "standardize_data"]
    /\ ret' = [kind |-> "running",
               sea_level_data |-> ret.sea_level_data,
               monthly_means |->
                   ComputeMonthlyStats(ret.sea_level_data, array.reference_period, "means").val,
               monthly_std_devs |->
                   ComputeMonthlyStats(ret.sea_level_data, array.reference_period, "std").val]
    /\ UNCHANGED <<array, mask, v10>>

ProcessStandardizeData ==
    /\ call.op = "process" /\ call.next = "standardize_data"
    /\ call' = [call EXCEPT !.next = "done"]
    /\ ret' = StandardizeData(ret.sea_level_data, ret.monthly_means,
                              ret.monthly_std_devs, array.study_period)
    /\ UNCHANGED <<array, mask, v10>>

NextSeaLevel ==
    \/ ProcessLoadData
    \/ ProcessCorrectDateFormat
    \/ ProcessCleanData
    \/ ProcessComputeMonthlyStats
    \/ ProcessStandardizeData

SpecSeaLevel == InitSeaLevel /\ [][NextSeaLevel]_vars

----------------------------------------------------------------------------
(* Temperature metric: TemperatureComponent.  The cell has observations  *)
(* at the hours TemperatureHours of every day of the wind timeline; the  *)
(* dataset holds the time of each of them.  A result carries the         *)
(* operations done on the data before it, in order.                      *)

TemperatureHours == <<3, 12, 22>>
TemperatureTimes ==
    [i \in 1..(Len(TemperatureHours) * Cardinality(WindDays)) |->
        [time |-> WindTime(((i - 1) \div Len(TemperatureHours)) + 1),
         hour |-> TemperatureHours[((i - 1) % Len(TemperatureHours)) + 1]]]

(* __init__: apply_mask("t2m"), then isel(time=time.dt.hour.isin(hours)) *)
TemperatureOfHours(self_array, self_mask, hours) ==
    LET temperature == ApplyMaskMethod(self_array, self_mask, "t2m", Omitted).val.vars["t2m"]
        kept == SelectSeq([i \in DOMAIN temperature |-> i],
                          LAMBDA i : self_array.time[i].hour \in hours)
    IN [j \in DOMAIN kept |->
           [time |-> self_array.time[kept[j]].time, v |-> temperature[kept[j]]]]

TemperatureDays(self_array, self_mask) ==
    TemperatureOfHours(self_array, self_mask, 6..21)
TemperatureNights(self_array, self_mask) ==
    TemperatureOfHours(self_array, self_mask, (0..5) \cup {22, 23})

(* resample(time="D").min() or .max(): the extremum of the valid values  *)
(* of each day, no-data without one                                      *)
ResampleDayExtremum(temperature, sign) ==
    LET firsts == SelectSeq([i \in DOMAIN temperature |-> i],
                            LAMBDA i : \A j \in 1..(i - 1) :
                                           temperature[j].time # temperature[i].time)
        ordered == [d \in DOMAIN firsts |-> temperature[firsts[d]]]
    IN [d \in DOMAIN ordered |->
          LET vals == {temperature[i].v.v : i \in {j \in DOMAIN temperature :
                          temperature[j].time = ordered[d].time /\ ~temperature[j].v.nan}}
          IN [time |-> ordered[d].time,
              v |-> IF vals = {} THEN NaN
                    ELSE Num(sign * SetMax({sign * x : x \in vals}))]]

(* variant: both extrema are computed before the argument is looked at *)
TempExtremumOfBoth(temperature_days, temperature_nights, extremum, period) ==
    IF period \notin {"day", "night"}
    THEN [kind |-> "raised", error |-> "ValueError", steps |-> <<>>]
    ELSE LET temperature == IF period = "day" THEN temperature_days ELSE temperature_nights
         IN IF extremum = "min"
            THEN [kind |-> "returned", val |-> ResampleDayExtremum(temperature, -1),
                  steps |-> <<"resample", "resample">>]
            ELSE IF extremum = "max"
            THEN [kind |-> "returned", val |-> ResampleDayExtremum(temperature, 1),
                  steps |-> <<"resample", "resample">>]
            ELSE [kind |-> "raised", error |-> "ValueError",
                  steps |-> <<"resample", "resample">>]

TempExtremum(temperature_days, temperature_nights, extremum, period) ==
    IF period \notin {"day", "night"}
    THEN [kind |-> "raised", error |-> "ValueError", steps |-> <<>>]
    ELSE LET temperature == IF period = "day" THEN temperature_days ELSE temperature_nights
         IN IF extremum = "min"
            THEN [kind |-> "returned", val |-> ResampleDayExtremum(temperature, -1),
                  steps |-> <<"resample">>]
            ELSE IF extremum = "max"
            THEN [kind |-> "returned", val |-> ResampleDayExtremum(temperature, 1),
                  steps |-> <<"resample">>]
            ELSE [kind |-> "raised", error |-> "ValueError", steps |-> <<>>]

(* np.percentile(values, q), linear interpolation, in hundredths of the *)
(* unit of the values; no-data if one of the values is                   *)
Percentile(values, q) ==
    IF \E i \in DOMAIN values : values[i].nan THEN NaN
    ELSE LET present == {values[i].v : i \in DOMAIN values}
             UpTo(x) == Cardinality({i \in DOMAIN values : values[i].v <= x})
             (* the k-th of the values in increasing order *)
             Sorted(k) == CHOOSE x \in present :
                              /\ UpTo(x) >= k
                              /\ \A y \in present : y < x => UpTo(y) < k
             position == (Len(values) - 1) * q
             lower == (position \div 100) + 1
             upper == IF lower < Len(values) THEN lower + 1 ELSE lower
         IN Num(100 * Sorted(lower) + (position % 100) * (Sorted(upper) - Sorted(lower)))

(* rolling(time=window, center=True).construct(): the window of element  *)
(* i holds the elements i - window/2 .. i + window/2 - 1 and is padded   *)
(* with no-data outside the series; its percentile, then the percentile  *)
(* of these over each day of year                                        *)
Percentiles(temperature_days, temperature_nights, n, reference_period, tempo) ==
    IF tempo \notin {"day", "night"}
    THEN [kind |-> "raised", error |-> "ValueError", steps |-> <<>>]
    ELSE LET rolling_window_size == IF tempo = "day" THEN 80 ELSE 40
             temperature_reference ==
                 SelTimeSlice(IF tempo = "day" THEN temperature_days ELSE temperature_nights,
                              reference_period)
             Window(i) ==
                 [k \in 1..rolling_window_size |->
                     LET j == i - (rolling_window_size \div 2) + k - 1
                     IN IF j \in DOMAIN temperature_reference
                        THEN temperature_reference[j].v ELSE NaN]
             percentile_reference(i) == Percentile(Window(i), n)
             OfDay(doy) ==
                 SelectSeq([i \in DOMAIN temperature_reference |-> i],
                           LAMBDA i : temperature_reference[i].time.day = doy)
         IN [kind |-> "returned",
             val |-> [doy \in {temperature_reference[i].time.day :
                                  i \in DOMAIN temperature_reference} |->
                        LET of_day == OfDay(doy)
                            group == [j \in 1..Len(of_day) |->
                                         percentile_reference(of_day[j])]
                        IN IF \E j \in 1..Len(of_day) : group[j].nan THEN NaN
                           ELSE Percentile(group, n)],
             steps |-> <<"sel", "rolling", "percentile", "groupby", "percentile">>]

InitTemperature ==
    /\ \E t2m \in [WindDays -> {<<1, 2, 1>>, <<2, 3, 1>>}] :
         array = [present |-> TRUE,
                  vars |-> ("t2m" :> [i \in DOMAIN TemperatureTimes |->
                               t2m[((i - 1) \div Len(TemperatureHours)) + 1]
                                  [((i - 1) % Len(TemperatureHours)) + 1]]),
                  time |-> TemperatureTimes]
    /\ mask \in {Mask(5), Mask(10)}
    /\ v10 = NoDataset
    /\ call = NotCalled
    /\ ret = NotReturned

CallTempExtremum ==
    /\ call = NotCalled
    /\ \E extremum \in {"min", "max", "mean"}, period \in {"day", "night", "evening"} :
      /\ call' = [op |-> "temp_extremum", extremum |-> extremum, period |-> period]
      /\ ret' = TempExtremum(TemperatureDays(array, mask), TemperatureNights(array, mask),
                             extremum, period)
      /\ UNCHANGED <<array, mask, v10>>

CallPercentiles ==
    /\ call = NotCalled
    /\ \E n \in {10, 90}, reference_period \in WindReferencePeriods,
          tempo \in {"day", "night", "evening"} :
      /\ call' = [op |-> "percentiles", n |-> n, reference_period |-> reference_period,
                  tempo |-> tempo]
      /\ ret' = Percentiles(TemperatureDays(array, mask), TemperatureNights(array, mask),
                            n, reference_period, tempo)
      /\ UNCHANGED <<array, mask, v10>>

NextTemperature == CallTempExtremum \/ CallPercentiles

SpecTemperature == InitTemperature /\ [][NextTemperature]_vars

----------------------------------------------------------------------------
(* Exceedance frequency: the closing statements of t90, t10 and           *)
(* wind_exceedance_frequency.  The difference array has one value or      *)
(* no-data per day, NSteps days in each of two months; tx90 marks the     *)
(* days with a difference above 0, tx10 (like wind, whose difference is   *)
(* thresholds - wind_power) the days with a difference below 0.           *)

(* xr.where(difference_array > 0, 1, 0), xr.where(difference_array < 0, 1, 0) *)
DaysAboveThresholdsOf(difference_array, metric) ==
    [i \in DOMAIN difference_array |->
        [time |-> difference_array[i].time,
         v |-> IF difference_array[i].v.nan THEN 0
               ELSE IF metric = "tx90" /\ difference_array[i].v.v > 0 THEN 1
               ELSE IF metric = "tx10" /\ difference_array[i].v.v < 0 THEN 1
               ELSE 0]]

(* resample(time="m").sum() / resample(time="m").count() *)
MonthlyFrequency(days_above_thresholds) ==
    LET months == {days_above_thresholds[i].time.month :
                       i \in DOMAIN days_above_thresholds}
        OfMonth(m) == SelectSeq(days_above_thresholds, LAMBDA p : p.time.month = m)
    IN [m \in 1..Cardinality(months) |->
          [time |-> MonthEnd(FirstYear, m),
           v |-> Rat(SeqSum([j \in DOMAIN OfMonth(m) |-> OfMonth(m)[j].v]),
                     Len(OfMonth(m)))]]

InitExceedance ==
    /\ \E diff \in [1..(2 * NSteps) -> {NaN, Num(-1), Num(0), Num(1)}] :
         array = [d \in 1..(2 * NSteps) |->
                     [time |-> Date(FirstYear, ((d - 1) \div NSteps) + 1,
                                    ((d - 1) % NSteps) + 1),
                      v |-> diff[d]]]
    /\ mask = NoMask
    /\ v10 = NoDataset
    /\ call = NotCalled
    /\ ret = NotReturned

CallExceedanceFrequency ==
    /\ call = NotCalled
    /\ \E metric \in {"tx90", "tx10"} :
      /\ call' = [op |-> metric]
      /\ ret' = Returned(MonthlyFrequency(DaysAboveThresholdsOf(array, metric)))
      /\ UNCHANGED <<array, mask, v10>>

NextExceedance == CallExceedanceFrequency

SpecExceedance == InitExceedance /\ [][NextExceedance]_vars

----------------------------------------------------------------------------
(* Rolling sum: Component.calculate_rolling_sum.  The dataset holds "tp"  *)
(* at one cell with per_day observations a day, over NSteps + 1 days; the *)
(* time of step i is its day and its hour.                                *)

(* var.rolling(time=window_size).sum() of the masked variable: the sum   *)
(* of the window_size time steps ending at each step, no-data unless all *)
(* of them exist and have a value                                        *)
CalculateRollingSum(self_array, self_mask, var_name, window_size) ==
    LET data == ApplyMaskMethod(self_array, self_mask, var_name, Omitted)
        var == data.val.vars[var_name]
    IN IF data.kind = "raised" THEN data
       ELSE Returned(
           [i \in DOMAIN var |->
              LET window == SubSeq(var, i - window_size + 1, i)
              IN [time |-> self_array.time[i],
                  v |-> IF i < window_size \/ \E j \in DOMAIN window : window[j].nan
                        THEN NaN
                        ELSE Num(SeqSum([j \in DOMAIN window |-> window[j].v]))]])

InitRollingSum ==
    /\ \E per_day \in {1, 2} :
         \E tp \in [1..(per_day * (NSteps + 1)) -> {1, 2}] :
           array = [present |-> TRUE,
                    vars |-> ("tp" :> tp),
                    time |-> [i \in DOMAIN tp |->
                                 [time |-> Date(FirstYear, 1, ((i - 1) \div per_day) + 1),
                                  hour |-> ((i - 1) % per_day) * (24 \div per_day)]]]
    /\ mask \in {Mask(5), Mask(10)}
    /\ v10 = NoDataset
    /\ call = NotCalled
    /\ ret = NotReturned

CallCalculateRollingSum ==
    /\ call = NotCalled
    /\ \E window_size \in {1, 2} :
      /\ call' = [op |-> "calculate_rolling_sum", var_name |-> "tp",
                  window_size |-> window_size]
      /\ ret' = CalculateRollingSum(array, mask, "tp", window_size)
      /\ UNCHANGED <<array, mask, v10>>

NextRollingSum == CallCalculateRollingSum

SpecRollingSum == InitRollingSum /\ [][NextRollingSum]_vars

----------------------------------------------------------------------------
(* Percentile thresholds on hourly data: TemperatureComponent.percentiles *)
(* of components/temperature.py and of temperaturecomponent.py.  The cell *)
(* has an observation at every hour of the first seven days of a year;    *)
(* the day hours of a day share a value and so do its night hours.        *)

(* temperaturecomponent.py: the statements of the day branch are those of *)
(* components/temperature.py; the night branch has window 40 and selects  *)
(* self.temperature_days; any other tempo raises Exception                *)
LegacyPercentiles(temperature_days, temperature_nights, n, reference_period, tempo) ==
    IF tempo = "day"
    THEN Percentiles(temperature_days, temperature_nights, n, reference_period, "day")
    ELSE IF tempo = "night"
    THEN Percentiles(temperature_days, temperature_days, n, reference_period, "night")
    ELSE [kind |-> "raised", error |-> "Exception", steps |-> <<>>]

InitPercentiles ==
    /\ \E by_day \in {[d \in 1..7 |-> 1], [d \in 1..7 |-> 2], [d \in 1..7 |-> d]},
          by_night \in {[d \in 1..7 |-> 1], [d \in 1..7 |-> 2], [d \in 1..7 |-> d]} :
         array = [present |-> TRUE,
                  vars |-> ("t2m" :> [i \in 1..(24 * 7) |->
                               IF ((i - 1) % 24) \in 6..21
                               THEN by_day[((i - 1) \div 24) + 1]
                               ELSE by_night[((i - 1) \div 24) + 1]]),
                  time |-> [i \in 1..(24 * 7) |->
                               [time |-> Date(FirstYear, 1, ((i - 1) \div 24) + 1),
                                hour |-> (i - 1) % 24]]]
    /\ mask = Mask(10)
    /\ v10 = NoDataset
    /\ call = NotCalled
    /\ ret = NotReturned

CallLegacyPercentiles ==
    /\ call = NotCalled
    /\ \E n \in {10, 90}, reference_period \in WindReferencePeriods,
          tempo \in {"day", "night", "evening"} :
      /\ call' = [op |-> "temperaturecomponent.percentiles", n |-> n,
                  reference_period |-> reference_period, tempo |-> tempo]
      /\ ret' = LegacyPercentiles(TemperatureDays(array, mask),
                                  TemperatureNights(array, mask),
                                  n, reference_period, tempo)
      /\ UNCHANGED <<array, mask, v10>>

NextPercentiles == CallPercentiles \/ CallLegacyPercentiles

SpecPercentiles == InitPercentiles /\ [][NextPercentiles]_vars

----------------------------------------------------------------------------
(* Execution backend: Component.__init__, should_use_dask and the tests   *)
(* of it in the operations.  array holds the component: the host it was   *)
(* built on (physical cores, memory in MiB) and its attribute use_dask.   *)
(* An operation returns the path it took and whether its result is        *)
(* computed or a lazy dask array.                                         *)

(* num_cores > 2 and total_memory > 16 * 1024**3 *)
ShouldUseDask(host) == host.num_cores > 2 /\ host.total_memory > 16 * 1024

(* the branch taken by each operation and the state of what it returns:   *)
(* the data are chunked only if use_dask, percentiles chunks its input    *)
(* under "if self.should_use_dask", and the others compute their result   *)
(* under "if not self.should_use_dask"; self.use_dask is a bool, and      *)
(* self.should_use_dask is a bound method, which is true                  *)
OperationPath(self, op) ==
    LET Truth(attribute) == IF attribute = "use_dask" THEN self.use_dask ELSE TRUE
        chunked == Truth("use_dask")
        parallel == IF op \in {"percentiles", "t90", "t10"}
                    THEN Truth("should_use_dask")
                    ELSE chunked
        computes == IF op = "percentiles" THEN FALSE
                    ELSE ~Truth("should_use_dask")
    IN [path |-> IF parallel THEN "dask" ELSE "single-threaded",
        computed |-> computes \/ ~parallel]

InitBackend ==
    /\ \E host \in [num_cores : 1..(NSteps + 2),
                    total_memory : {8 * 1024, 16 * 1024, 16 * 1024 + 1, 32 * 1024}] :
         array = [host |-> host, use_dask |-> ShouldUseDask(host)]
    /\ mask = NoMask
    /\ v10 = NoDataset
    /\ call = NotCalled
    /\ ret = NotReturned

CallOperation ==
    /\ call = NotCalled
    /\ \E op \in {"percentiles", "t90", "t10", "monthly_max", "wind_power",
                  "wind_thresholds"} :
      /\ call' = [op |-> op]
      /\ ret' = Returned(OperationPath(array, op))
      /\ UNCHANGED <<array, mask, v10>>

NextBackend == CallOperation

SpecBackend == InitBackend /\ [][NextBackend]_vars

----------------------------------------------------------------------------
(* Properties of the drought metric *)

DailyTotal(tp, d) == SeqSum(tp[d])
IsDry(tp, d) == DailyTotal(tp, d) < DryThreshold
AllDry(tp) == \A d \in DOMAIN tp : IsDry(tp, d)
ConstantBelowThreshold(tp) ==
    \E c \in 0..(DryThreshold - 1) : \A d \in DOMAIN tp : tp[d] = <<c>>

(* the number of dry days since the last wet day, 0 on a wet day *)
RECURSIVE DryRunLength(_, _)
DryRunLength(tp, d) ==
    IF d = 0 THEN 0
    ELSE IF IsDry(tp, d) THEN 1 + DryRunLength(tp, d - 1) ELSE 0

ReturnedFrom(op) == call.op = op /\ ret.kind = "returned"
Retained(cellMask) == ~cellMask.present \/ cellMask.country >= MaskThreshold

(* C5: max_consecutive_dry_days returns, for every year, the maximum over *)
(* the days of the year of the number of dry days since the last wet day  *)
(* (a day is dry iff its total is strictly below the threshold).          *)
C5_YearlyMaxOfDryRun ==
    (ReturnedFrom("max_consecutive_dry_days") /\ Retained(mask)) =>
        \A i \in DOMAIN ret.val :
            ret.val[i].v =
                SetMax({DryRunLength(array, d) : d \in DaysOfYear(ret.val[i].time.year)})

(* C8: on all-dry input the running count grows by one each day and each  *)
(* year's drought duration exceeds that of the year before.               *)
C8_AllDryRunGrows ==
    (ReturnedFrom("max_consecutive_dry_days") /\ AllDry(array) /\ Retained(mask)) =>
        /\ \A d \in DOMAIN ret.days : d > 1 => ret.days[d] = ret.days[d - 1] + 1
        /\ \A i \in DOMAIN ret.val : i > 1 => ret.val[i].v > ret.val[i - 1].v

(* C9: on all-dry input every standardized drought anomaly that           *)
(* calculate_component returns is no-data.                                *)
C9_AllDryAnomaliesNaN ==
    (ReturnedFrom("calculate_component") /\ AllDry(array)) =>
        \A i \in DOMAIN ret.val : ret.val[i].v = ZNaN

C9_Witness ==
    /\ ReturnedFrom("calculate_component")
    /\ AllDry(array)
    /\ array[1] = LowDay
    /\ Len(ret.val) = 12 * NYears
    /\ ret.val[1].v = ZNaN

(* C10: on precipitation that is constant and below the dry threshold     *)
(* max_consecutive_dry_days returns one and the same value for every year *)
(* and for every cell, whatever the cell's mask.                          *)
C10_ConstantDrySameValue ==
    (ReturnedFrom("max_consecutive_dry_days") /\ ConstantBelowThreshold(array)) =>
        /\ \A i \in DOMAIN ret.val : ret.val[i].v = ret.val[1].v
        /\ \A m \in CellMasks : \A y \in Years :
               MaxConsecutiveDryDays(array, m)[y] = ret.val[1].v

C10_Witness ==
    /\ ReturnedFrom("max_consecutive_dry_days")
    /\ ConstantBelowThreshold(array)
    /\ array[1] = LowDay
    /\ Len(ret.val) = NYears
    /\ NYears > 1

----------------------------------------------------------------------------
(* Properties of drought_interpolate *)

ValueAt(series, t) == (CHOOSE i \in DOMAIN series : series[i].time = t)
Has(series, t) == \E i \in DOMAIN series : series[i].time = t
ArgValues(yearly) == [i \in DOMAIN yearly |-> yearly[i].v]

Is10Then20 ==
    /\ ReturnedFrom("drought_interpolate")
    /\ ArgValues(call.max_days_drought_per_year) = <<10, 20>>
    /\ call.max_days_drought_per_year[1].time.year = 2000

(* C6 as stated: for [10, 20] in 2000 and 2001, January 2000 is           *)
(* (11/12)*10 + (1/12)*20 and December 2000 is (1/12)*10 + (11/12)*20.    *)
C6_AsStated ==
    Is10Then20 =>
        /\ Has(ret.val, MonthStart(2000, 1)) /\ Has(ret.val, MonthStart(2000, 12))
        /\ ret.val[ValueAt(ret.val, MonthStart(2000, 1))].v = 11 * 10 + 1 * 20
        /\ ret.val[ValueAt(ret.val, MonthStart(2000, 12))].v = 1 * 10 + 11 * 20

(* C6 amended: for [10, 20] in 2000 and 2001, January 2000 is             *)
(* (11/12)*10 + (1/12)*20 and December 2000 is (0/12)*10 + (12/12)*20,    *)
(* the value of 2001.                                                     *)
C6_JanuaryAndDecember ==
    Is10Then20 =>
        /\ Has(ret.val, MonthStart(2000, 1)) /\ Has(ret.val, MonthStart(2000, 12))
        /\ ret.val[ValueAt(ret.val, MonthStart(2000, 1))].v = 11 * 10 + 1 * 20
        /\ ret.val[ValueAt(ret.val, MonthStart(2000, 12))].v = 0 * 10 + 12 * 20

C6_Witness ==
    /\ Is10Then20
    /\ ret.val[12].time = MonthStart(2000, 12)
    /\ ret.val[12].v = Twelfths(20)

(* C7: for a yearly series of length at least 1 the last 12 entries of    *)
(* the output are the 12 months of the final year, each equal to that     *)
(* year's value, and no earlier entry belongs to the final year.          *)
C7_FinalYearRepeated ==
    ReturnedFrom("drought_interpolate") =>
        LET yearly == call.max_days_drought_per_year
            last == yearly[Len(yearly)]
            n == Len(ret.val)
        IN /\ n >= 12
           /\ \A month \in 1..12 :
                  ret.val[n - 12 + month] =
                      [time |-> MonthStart(last.time.year, month),
                       v |-> Twelfths(last.v)]
           /\ \A i \in 1..(n - 12) : ret.val[i].time.year # last.time.year

C7_Witness ==
    /\ ReturnedFrom("drought_interpolate")
    /\ Len(call.max_days_drought_per_year) = 2
    /\ ArgValues(call.max_days_drought_per_year) = <<20, 10>>
    /\ ret.val[24].v = Twelfths(10)
    /\ ret.val[13].v = Twelfths(10)

----------------------------------------------------------------------------
(* Properties of standardize_metric.  The baseline of calendar month c   *)
(* is taken over RefIndices: n values with sum S and sum of squares Q    *)
(* have mean S/n and standard deviation sqrt(n*Q - S*S)/n.               *)

RefIndices(metric, period, c) ==
    {j \in DOMAIN metric :
        /\ DateNum(period[1]) <= DateNum(metric[j].time)
        /\ DateNum(metric[j].time) <= DateNum(period[2])
        /\ metric[j].time.month = c}

RECURSIVE SumOver(_, _)
SumOver(f, J) ==
    IF J = {} THEN 0
    ELSE LET j == CHOOSE j \in J : TRUE IN f[j] + SumOver(f, J \ {j})

BaseN(metric, period, c) == Cardinality(RefIndices(metric, period, c))
BaseS(metric, period, c) ==
    SumOver([j \in DOMAIN metric |-> metric[j].v], RefIndices(metric, period, c))
BaseQ(metric, period, c) ==
    SumOver([j \in DOMAIN metric |-> metric[j].v * metric[j].v],
            RefIndices(metric, period, c))
(* n * n * variance, and n * (value - mean) *)
BaseVar(metric, period, c) ==
    BaseN(metric, period, c) * BaseQ(metric, period, c)
        - BaseS(metric, period, c) * BaseS(metric, period, c)
BaseDiff(metric, period, i) ==
    BaseN(metric, period, metric[i].time.month) * metric[i].v
        - BaseS(metric, period, metric[i].time.month)

(* z is the IEEE quotient diff / sqrt(var) *)
IsQuotient(z, diff, var) ==
    IF var = 0
    THEN z = (IF diff = 0 THEN ZNaN ELSE IF diff > 0 THEN ZInf(1) ELSE ZInf(-1))
    ELSE /\ z.kind = "finite"
         /\ z.den > 0 /\ z.rad > 0
         /\ Sign(z.num) = Sign(diff)
         /\ z.num * z.num * var = diff * diff * z.den * z.den * z.rad

(* C2: standardize_metric returns, at every timestamp of the series,      *)
(* (value - mean_c) / std_c for the timestamp's calendar month c, with    *)
(* mean_c and std_c taken over exactly the values of month c that lie in  *)
(* the reference period.                                                  *)
C2_AnomalyIsZScore ==
    ReturnedFrom("standardize_metric") =>
        /\ Len(ret.val) = Len(call.metric)
        /\ \A i \in DOMAIN call.metric :
              /\ ret.val[i].time = call.metric[i].time
              /\ IsQuotient(ret.val[i].v,
                            BaseDiff(call.metric, call.reference_period, i),
                            BaseVar(call.metric, call.reference_period,
                                    call.metric[i].time.month))

C2_Witness ==
    /\ ReturnedFrom("standardize_metric")
    /\ \E i \in DOMAIN call.metric :
          /\ ~InPeriod(call.metric[i].time, call.reference_period)
          /\ ret.val[i].v.kind = "finite"
          /\ ret.val[i].v.num # 0
    /\ \E i \in DOMAIN call.metric :
          /\ ret.val[i].v.kind = "finite"
          /\ ret.val[i].v.num < 0
          /\ ret.val[i].v.rad = 8

ZeroVariance(i) ==
    BaseVar(call.metric, call.reference_period, call.metric[i].time.month) = 0

ReferenceVaries ==
    \A i \in DOMAIN call.metric : ~ZeroVariance(i)

C4_ReferenceAnomaliesMean0Std1 ==
    (ReturnedFrom("standardize_metric") /\ ReferenceVaries) =>
        \A c \in {call.metric[i].time.month : i \in DOMAIN call.metric} :
            LET G == RefIndices(call.metric, call.reference_period, c)
                g == CHOOSE g \in G : TRUE
                den == ret.val[g].v.den
                rad == ret.val[g].v.rad
            IN /\ G # {}
               /\ \A i \in G : /\ ret.val[i].v.kind = "finite"
                               /\ ret.val[i].v.den = den
                               /\ ret.val[i].v.rad = rad
               /\ den > 0 /\ rad > 0
               /\ SumOver([i \in DOMAIN ret.val |-> ret.val[i].v.num], G) = 0
               /\ SumOver([i \in DOMAIN ret.val |-> ret.val[i].v.num * ret.val[i].v.num], G)
                     = Cardinality(G) * den * den * rad

C4_Witness ==
    /\ ReturnedFrom("standardize_metric")
    /\ ReferenceVaries
    /\ \E i \in DOMAIN call.metric :
          ~InPeriod(call.metric[i].time, call.reference_period)
    /\ \E i \in DOMAIN call.metric :
          /\ InPeriod(call.metric[i].time, call.reference_period)
          /\ ret.val[i].v.kind = "finite"
          /\ ret.val[i].v.num > 0

----------------------------------------------------------------------------
(* Properties of the composite assembler *)

(* the rational or no-data x equals p / q *)
IsRatio(x, p, q) == ~x.nan /\ x.den # 0 /\ x.num * q = p * x.den

(* C1: in every row of the returned table the ACI column is               *)
(* (T90 - T10 + precipitation + drought + erosion_factor * sea level      *)
(* + wind) / 6 of that row's own columns, with erosion_factor 1 when the  *)
(* caller omits it; it is no-data when one of the columns is.             *)
C1_AciFormula ==
    ReturnedFrom("calculate_aci") =>
        \A t \in DOMAIN ret.val.rows :
            LET row == ret.val.rows[t]
                e == IF call.factor.given THEN call.factor.v ELSE 1
                cols == {"T90", "T10", "precipitation", "drought", "sea_mean", "windpower"}
                s == row["sea_mean"]
            IN IF \E c \in cols : row[c].nan
               THEN row["ACI"].nan
               ELSE IsRatio(row["ACI"],
                            s.den * (row["T90"].num - row["T10"].num
                                     + row["precipitation"].num + row["drought"].num
                                     + row["windpower"].num)
                                + e * s.num,
                            6 * s.den)

C1_Witness ==
    /\ ReturnedFrom("calculate_aci")
    /\ ~call.factor.given
    /\ Cardinality(DOMAIN ret.val.rows) = NAciMonths
    /\ \E t \in DOMAIN ret.val.rows :
          /\ ~ret.val.rows[t]["ACI"].nan
          /\ ret.val.rows[t]["T10"] = Rat(-2, 1)
          /\ ret.val.rows[t]["sea_mean"] = Rat(3, 2)

----------------------------------------------------------------------------
(* Properties of apply_mask *)

(* C11: apply_mask(var, threshold) returns a grid in which, at every time *)
(* step of the cell, the variable is no-data if the cell's mask coverage  *)
(* is strictly below the threshold (0.8 when omitted) and equals the      *)
(* input value if the coverage is at least the threshold.                 *)
C11_MaskedBelowThreshold ==
    ReturnedFrom("apply_mask") =>
        LET limit == IF call.threshold.given THEN call.threshold.v ELSE 8
            input == array.vars[call.var_name]
            output == ret.val.vars[call.var_name]
        IN /\ DOMAIN output = DOMAIN input
           /\ \A i \in DOMAIN input :
                /\ mask.country < limit => output[i].nan
                /\ mask.country >= limit => (~output[i].nan /\ output[i].v = input[i])

C11_Witness ==
    /\ ReturnedFrom("apply_mask")
    /\ ~call.threshold.given
    /\ mask.country = MaskThreshold
    /\ ret.val.vars["u10"][1] = Num(1)

----------------------------------------------------------------------------
(* Properties of the wind metric.  The wind power of day j, in units of  *)
(* 0.5 * rho, is the cube of sqrt(u10^2 + v10^2).                        *)

PowerOfDay(j) ==
    LET q == array.vars["u10"][j] * array.vars["u10"][j]
                 + v10.vars["v10"][j] * v10.vars["v10"][j]
        r == CHOOSE r \in 0..q : r * r = q
    IN r * r * r

(* the days of the reference period that share the day of year of day d *)
SameDayOfYearInReference(d, period) ==
    {j \in WindDays :
        /\ WindTime(j).day = WindTime(d).day
        /\ DateNum(period[1]) <= DateNum(WindTime(j))
        /\ DateNum(WindTime(j)) <= DateNum(period[2])}

(* C15: for every day d of the full wind-power series, wind_thresholds   *)
(* returns mean + 1.28 * std of the reference-period wind-power values   *)
(* that share d's day of year; no value outside the reference period     *)
(* enters the result.                                                    *)
C15_ThresholdIsMeanPlusStd ==
    (ReturnedFrom("wind_thresholds") /\ Retained(mask)) =>
        /\ DOMAIN ret.val = WindDays
        /\ \A d \in WindDays :
             LET R == SameDayOfYearInReference(d, call.reference_period)
                 n == Cardinality(R)
                 S == SumOver([j \in WindDays |-> PowerOfDay(j)], R)
                 Q == SumOver([j \in WindDays |-> PowerOfDay(j) * PowerOfDay(j)], R)
                 t == ret.val[d].v
             IN /\ ret.val[d].time = WindTime(d)
                /\ ~t.nan
                /\ t.mean.num * n = S * t.mean.den
                /\ t.std.rad * n * n = (n * Q - S * S) * t.std.den * t.std.den
                /\ 100 * t.times.num = 128 * t.times.den

C15_Witness ==
    /\ ReturnedFrom("wind_thresholds")
    /\ Retained(mask)
    /\ call.reference_period = <<Date(FirstYear, 1, 1), Date(FirstYear + 1, 1, 31)>>
    /\ ret.val[1].v.std.rad > 0
    /\ PowerOfDay(2 * Cardinality(WindDoys) + 1) = 125
    /\ PowerOfDay(1) = 1
    /\ ret.val[2 * Cardinality(WindDoys) + 1].v = ret.val[1].v


(* C12: for a cell whose mask coverage is below the threshold the raw     *)
(* wind exceedance frequency and its standardized anomaly are no-data at  *)
(* every time step.                                                       *)
C12_MaskedCellIsNoData ==
    ~Retained(mask) =>
        /\ ReturnedFrom("wind_exceedance_frequency") =>
               \A i \in DOMAIN ret.val : ret.val[i].v.nan
        /\ ReturnedFrom("std_wind_exceedance_frequency") =>
               \A i \in DOMAIN ret.val : ret.val[i].v = ZNaN


(* C20: no operation of the wind component changes its source data: the  *)
(* stored array, v10 and mask are the same after a call, whether it       *)
(* returned or raised, as before it.                                      *)
C20_SourceDataUnchanged ==
    [][array' = array /\ v10' = v10 /\ mask' = mask]_vars

----------------------------------------------------------------------------
(* Properties of the composite assembler: the rows of the table.  The    *)
(* sea-level series is stamped at the month end that follows each of its *)
(* own timestamps.                                                       *)

HazardColumns == {"windpower", "precipitation", "drought", "T90", "T10"}

(* the timestamps at which all six series have an entry *)
CommonTimestamps(in) ==
    {t \in DOMAIN in.windpower :
        /\ \A c \in HazardColumns : t \in DOMAIN in[c]
        /\ \E s \in DOMAIN in.sea_lev : PlusMonthEnd(s) = t}

(* C13 as stated: the table has a row for t only if all six series have  *)
(* a value at t that is not no-data.                                     *)
C13_AsStated ==
    ReturnedFrom("calculate_aci") =>
        \A t \in DOMAIN ret.val.rows :
            /\ t \in CommonTimestamps(call.components)
            /\ \A c \in HazardColumns : ~call.components[c][t].nan
            /\ \A s \in DOMAIN call.components.sea_lev :
                   PlusMonthEnd(s) = t =>
                       \E k \in DOMAIN call.components.sea_lev[s] :
                           ~call.components.sea_lev[s][k].nan

(* C13 amended: the table has a row for t exactly when all six series    *)
(* have an entry at t; the row carries each series' own value at t, a    *)
(* no-data value included, and then the row's ACI is no-data.            *)
C13_RowForEveryCommonTimestamp ==
    ReturnedFrom("calculate_aci") =>
        /\ DOMAIN ret.val.rows = CommonTimestamps(call.components)
        /\ \A t \in DOMAIN ret.val.rows :
             /\ \A c \in HazardColumns : ret.val.rows[t][c] = call.components[c][t]
             /\ \A s \in DOMAIN call.components.sea_lev :
                    PlusMonthEnd(s) = t =>
                        ret.val.rows[t]["sea_mean"] = StationMean(call.components.sea_lev[s])
             /\ (\E c \in HazardColumns : call.components[c][t].nan)
                    => ret.val.rows[t]["ACI"].nan

C13_Witness ==
    /\ ReturnedFrom("calculate_aci")
    /\ \E t \in DOMAIN ret.val.rows :
          /\ ret.val.rows[t]["drought"].nan
          /\ ~ret.val.rows[t]["T90"].nan
          /\ ret.val.rows[t]["ACI"].nan

(* C14: when the six series share no timestamp the assembler raises no   *)
(* error and returns a table without rows that has the ACI column.       *)
C14_EmptyTableHasAciColumn ==
    (call.op = "calculate_aci" /\ CommonTimestamps(call.components) = {}) =>
        /\ ret.kind = "returned"
        /\ DOMAIN ret.val.rows = {}
        /\ \E i \in DOMAIN ret.val.columns : ret.val.columns[i] = "ACI"

C14_Witness ==
    /\ ReturnedFrom("calculate_aci")
    /\ DOMAIN call.components.drought # {}
    /\ DOMAIN call.components.drought \cap DOMAIN call.components.T90 = {}
    /\ DOMAIN ret.val.rows = {}
    /\ ret.val.columns[Len(ret.val.columns)] = "ACI"

----------------------------------------------------------------------------
(* Properties of the sea-level component *)

ProcessAt(statement) == call.op = "process" /\ call.next = statement

(* the month of a decimal-year date: the table entry that is the first    *)
(* four digits of its fraction, 0 if there is none                        *)
MonthOfFraction(digits) ==
    LET keys == {key \in DOMAIN MonthMapping :
                    /\ Len(key) = (IF Len(digits) < 4 THEN Len(digits) ELSE 4)
                    /\ \A k \in 1..Len(key) : key[k] = digits[k]}
    IN IF keys = {} THEN 0 ELSE MonthMapping[CHOOSE key \in keys : TRUE]

(* the files with every sentinel cell left empty *)
SentinelAsMissing(files) ==
    [i \in DOMAIN files |->
        [date |-> files[i].date,
         v |-> [k \in DOMAIN files[i].v |->
                  IF files[i].v[k].nan \/ files[i].v[k].v = -99999
                  THEN NaN ELSE files[i].v[k]]]]

(* C16: in process no cell of the data equals -99999.0 when              *)
(* compute_monthly_stats or standardize_data runs, and the baseline      *)
(* means and standard deviations and the outcome of process are those of *)
(* the files in which every sentinel cell is empty.                      *)
C16_SentinelCleanedBeforeStatistics ==
    LET data == CorrectDateFormat(SentinelAsMissing(array.directory))
        means == ComputeMonthlyStats(data, array.reference_period, "means").val
        stds == ComputeMonthlyStats(data, array.reference_period, "std").val
    IN /\ (ProcessAt("compute_monthly_stats") \/ ProcessAt("standardize_data")) =>
              \A i \in DOMAIN ret.sea_level_data :
                  \A k \in DOMAIN ret.sea_level_data[i].v :
                      \/ ret.sea_level_data[i].v[k].nan
                      \/ ret.sea_level_data[i].v[k].v # -99999
       /\ ProcessAt("standardize_data") =>
              (ret.monthly_means = means /\ ret.monthly_std_devs = stds)
       /\ ProcessAt("done") =>
              ret = StandardizeData(data, means, stds, array.study_period)

C16_Witness ==
    /\ ProcessAt("done")
    /\ ret.kind = "returned"
    /\ \E i \in DOMAIN array.directory :
          /\ array.directory[i].v[1] = Num(-99999)
          /\ array.directory[i].date.year = FirstYear
    /\ \E i \in DOMAIN ret.val : ret.val[i].v[1].kind = "finite"
    /\ \E i \in DOMAIN ret.val : ret.val[i].v[1].kind = "nan"

(* the rows of the files whose date falls in the study period *)
RowsOfStudyPeriod ==
    {i \in DOMAIN array.directory :
        LET date == array.directory[i].date
        IN /\ MonthOfFraction(date.digits) # 0
           /\ DateNum(array.study_period[1])
                  <= DateNum(Date(date.year, MonthOfFraction(date.digits), 1))
           /\ DateNum(Date(date.year, MonthOfFraction(date.digits), 1))
                  < DateNum(array.study_period[2])}

(* the calendar months that have a row in the reference period *)
MonthsOfReferencePeriod ==
    {MonthOfFraction(array.directory[i].date.digits) :
        i \in {j \in DOMAIN array.directory :
                  LET date == array.directory[j].date
                  IN /\ MonthOfFraction(date.digits) # 0
                     /\ DateNum(array.reference_period[1])
                            <= DateNum(Date(date.year, MonthOfFraction(date.digits), 1))
                     /\ DateNum(Date(date.year, MonthOfFraction(date.digits), 1))
                            < DateNum(array.reference_period[2])}}

----------------------------------------------------------------------------
(* Properties of apply_mask: missing data *)

(* C17 as stated: apply_mask on a component whose array or mask is       *)
(* absent fails with a ConfigurationError, returns nothing and leaves    *)
(* the component unchanged.                                              *)
C17_AsStated ==
    [][(call'.op = "apply_mask" /\ (~array.present \/ ~mask.present)) =>
           /\ ret' = [kind |-> "raised", error |-> "ConfigurationError"]
           /\ array' = array /\ mask' = mask /\ v10' = v10]_vars

(* C17 amended: apply_mask on a component whose array or mask is absent  *)
(* raises ValueError, returns nothing and leaves the component           *)
(* unchanged.                                                            *)
C17_AbsentDataRaisesValueError ==
    [][(call'.op = "apply_mask" /\ (~array.present \/ ~mask.present)) =>
           /\ ret' = [kind |-> "raised", error |-> "ValueError"]
           /\ array' = array /\ mask' = mask /\ v10' = v10]_vars

C17_Witness ==
    /\ call.op = "apply_mask"
    /\ array.present
    /\ ~mask.present
    /\ ret.kind = "raised"

----------------------------------------------------------------------------
(* Properties of the temperature component *)

----------------------------------------------------------------------------
(* C21: for every pair of consecutive years (k, k+1) and every month m in *)
(* 1..12, drought_interpolate gives month m of year k the value           *)
(* ((12 - m)/12) * y_k + (m/12) * y_(k+1); the output has exactly 12      *)
(* entries per input year, in strictly increasing calendar order.         *)
C21_InterpolationOfEveryPair ==
    ReturnedFrom("drought_interpolate") =>
        LET yearly == call.max_days_drought_per_year
            n == Len(yearly)
        IN /\ Len(ret.val) = 12 * n
           /\ \A k \in 1..(n - 1) : \A m \in 1..12 :
                  ret.val[12 * (k - 1) + m] =
                      [time |-> MonthStart(yearly[k].time.year, m),
                       v |-> (12 - m) * yearly[k].v + m * yearly[k + 1].v]
           /\ \A i \in 1..(Len(ret.val) - 1) :
                  DateNum(ret.val[i].time) < DateNum(ret.val[i + 1].time)

C21_Witness ==
    /\ ReturnedFrom("drought_interpolate")
    /\ Len(call.max_days_drought_per_year) >= 2
    /\ ArgValues(call.max_days_drought_per_year)[1] = 0
    /\ ArgValues(call.max_days_drought_per_year)[2] = 20
    /\ ret.val[6] = [time |-> MonthStart(FirstYear, 6), v |-> 6 * 20]
    /\ Len(ret.val) = 12 * Len(call.max_days_drought_per_year)

----------------------------------------------------------------------------
(* Properties of the exceedance frequency *)

(* the days of month m that have a value *)
ValidDaysOfMonth(m) == {i \in DOMAIN array : array[i].time.month = m /\ ~array[i].v.nan}

(* C22: every monthly exceedance frequency is the number of the month's   *)
(* observations that satisfy the sign condition (strictly above the       *)
(* threshold, strictly below it for T10) divided by the number of the     *)
(* month's observations that have a value; a no-data observation is not   *)
(* counted in the denominator.                                            *)
C22_FrequencyOverValidObservations ==
    (ReturnedFrom("tx90") \/ ReturnedFrom("tx10")) =>
        \A m \in DOMAIN ret.val :
            LET valid == ValidDaysOfMonth(m)
                marked == {i \in valid :
                              IF call.op = "tx90" THEN array[i].v.v > 0
                              ELSE array[i].v.v < 0}
            IN valid # {} =>
                   /\ ret.val[m].time.month = m
                   /\ IsRatio(ret.val[m].v, Cardinality(marked), Cardinality(valid))

----------------------------------------------------------------------------
(* Properties of the rolling sum *)

(* the steps of the window_days days (of 24 hours) that end at step i *)
StepsOfDaysEndingAt(i, window_days) ==
    LET Hours(t) == 24 * t.time.day + t.hour
    IN {j \in 1..i : Hours(array.time[j]) > Hours(array.time[i]) - 24 * window_days}

(* C23: calculate_rolling_sum(var, window_days) gives at each time step   *)
(* the sum of the variable over the window_days consecutive days ending   *)
(* at that step, whatever the time resolution of the input, and no-data   *)
(* whenever that window does not hold window_days days of valid values,   *)
(* the first steps of the series included.                                *)
C23_SumOverWindowDays ==
    ReturnedFrom("calculate_rolling_sum") =>
        \A i \in DOMAIN ret.val :
            LET window == StepsOfDaysEndingAt(i, call.window_size)
                per_day == Cardinality({j \in DOMAIN array.time :
                                           array.time[j].time = array.time[1].time})
                full == /\ Retained(mask)
                        /\ Cardinality(window) = per_day * call.window_size
            IN /\ ret.val[i].time = array.time[i]
               /\ ret.val[i].v.nan = ~full
               /\ full => ret.val[i].v.v = SumOver(array.vars["tp"], window)

----------------------------------------------------------------------------
(* Properties of the percentile thresholds.  A threshold is held in       *)
(* ten-thousandths of the unit of the observations.                       *)

PercentilesReturned ==
    /\ call.op \in {"percentiles", "temperaturecomponent.percentiles"}
    /\ ret.kind = "returned"

(* the observations of the reference period at the hours of the partition *)
PartitionOfReference ==
    {i \in DOMAIN array.time :
        /\ IF call.tempo = "night" THEN array.time[i].hour \in (0..5) \cup {22, 23}
           ELSE array.time[i].hour \in 6..21
        /\ DateNum(call.reference_period[1]) <= DateNum(array.time[i].time)
        /\ DateNum(array.time[i].time) <= DateNum(call.reference_period[2])}

(* the centered window of the given size around observation i lies within *)
(* the observations of the partition                                      *)
WindowWithin(i, size) ==
    LET before == Cardinality({j \in PartitionOfReference : j < i})
        after == Cardinality({j \in PartitionOfReference : j > i})
    IN before >= size \div 2 /\ after >= (size \div 2) - 1

(* C24: percentiles(n, reference_period, part) derives the thresholds of  *)
(* the night partition only from the night-hour observations (22:00 to    *)
(* 05:00) of the reference period, with a centered window of 40           *)
(* observations, and those of the day partition only from the day-hour    *)
(* observations (06:00 to 21:00), with a centered window of 80: there is  *)
(* a threshold for every day of year of the partition, it has a value     *)
(* exactly when the windows of that day's observations are full, and      *)
(* when the observations of the partition all have one value, so has      *)
(* every threshold.                                                       *)
C24_ThresholdsFromOwnPartition ==
    PercentilesReturned =>
        LET size == IF call.tempo = "night" THEN 40 ELSE 80
            doys == {array.time[i].time.day : i \in PartitionOfReference}
            observed == {array.vars["t2m"][i] : i \in PartitionOfReference}
        IN /\ DOMAIN ret.val = doys
           /\ \A doy \in doys :
                 LET full == \A i \in PartitionOfReference :
                                 array.time[i].time.day = doy => WindowWithin(i, size)
                 IN /\ ret.val[doy].nan = ~full
                    /\ (full /\ Cardinality(observed) = 1) =>
                           \A c \in observed : ret.val[doy].v = 100 * 100 * c

----------------------------------------------------------------------------
(* Properties of correct_date_format *)

(* C25: correct_date_format maps the date of each row to the first day of *)
(* (its integer part as year, the month that the table of 12 fractions    *)
(* gives, the table being one-to-one onto the months 1..12); the rows     *)
(* whose fraction matches no entry of the table are dropped and no other  *)
(* row is, and the index of the result is in chronological order.         *)
C25_DatesCorrectedAndSorted ==
    ProcessAt("clean_data") =>
        LET files == array.directory
            data == ret.sea_level_data
            kept == {i \in DOMAIN files : MonthOfFraction(files[i].date.digits) # 0}
            Corrected(i) ==
                [time |-> Date(files[i].date.year, MonthOfFraction(files[i].date.digits), 1),
                 v |-> files[i].v]
        IN /\ Cardinality(DOMAIN MonthMapping) = 12
           /\ {MonthMapping[key] : key \in DOMAIN MonthMapping} = 1..12
           /\ Len(data) = Cardinality(kept)
           /\ \A i \in kept :
                  Cardinality({j \in DOMAIN data : data[j] = Corrected(i)})
                      = Cardinality({k \in kept : Corrected(k) = Corrected(i)})
           /\ \A j \in 1..(Len(data) - 1) :
                  DateNum(data[j].time) <= DateNum(data[j + 1].time)

C25_Witness ==
    /\ ProcessAt("clean_data")
    /\ array.directory[1].date.year > FirstYear
    /\ array.directory[Len(array.directory)].date.digits = <<0, 1, 1, 2, 5>>
    /\ Len(ret.sea_level_data) = Len(array.directory) - 1
    /\ ret.sea_level_data[1].time = Date(FirstYear, 1, 1)
    /\ ret.sea_level_data[2].time = Date(FirstYear, 2, 1)

----------------------------------------------------------------------------
(* C26: the loop of standardize_data over (year, month) gives every row   *)
(* and every station of the study-period slice the value of the           *)
(* vectorized join on the calendar month,                                 *)
(* (value - monthly_mean[month]) / monthly_std[month], also when several  *)
(* rows fall in the same (year, month).                                   *)
C26_LoopIsCalendarMonthJoin ==
    (ProcessAt("done") /\ ret.kind = "returned") =>
        LET data == CleanData(CorrectDateFormat(array.directory))
            data_study == PeriodMask(data, array.study_period)
            means == ComputeMonthlyStats(data, array.reference_period, "means").val
            stds == ComputeMonthlyStats(data, array.reference_period, "std").val
        IN /\ Len(ret.val) = Len(data_study)
           /\ \A i \in DOMAIN data_study :
                 /\ ret.val[i].time = data_study[i].time
                 /\ \A k \in DOMAIN data_study[i].v :
                       LET cell == data_study[i].v[k]
                           mean == means[data_study[i].time.month]
                           std == stds[data_study[i].time.month]
                       IN ret.val[i].v[k] =
                              IF cell.nan \/ mean.nan \/ std.nan THEN ZNaN
                              ELSE Standardized(cell.v * Len(data_study[i].v), mean, std)

----------------------------------------------------------------------------
(* C27: reference and study periods are closed intervals: a row dated     *)
(* exactly on the start date or exactly on the end date of the period is  *)
(* part of the reference baseline of compute_monthly_stats and of the     *)
(* study slice of standardize_data.                                       *)
C27_PeriodsAreClosed ==
    LET files == array.directory
        kept == {i \in DOMAIN files : MonthOfFraction(files[i].date.digits) # 0}
        TimeOf(i) == Date(files[i].date.year, MonthOfFraction(files[i].date.digits), 1)
        InClosed(t, period) ==
            DateNum(period[1]) <= DateNum(t) /\ DateNum(t) <= DateNum(period[2])
    IN /\ ProcessAt("standardize_data") =>
              \A i \in kept :
                  InClosed(TimeOf(i), array.reference_period) =>
                      TimeOf(i).month \in DOMAIN ret.monthly_means
       /\ (ProcessAt("done") /\ ret.kind = "returned") =>
              \A i \in kept :
                  InClosed(TimeOf(i), array.study_period) =>
                      \E j \in DOMAIN ret.val : ret.val[j].time = TimeOf(i)

----------------------------------------------------------------------------
(* Properties of the execution backend *)

(* C28: the parallel path is taken only on a host with more than 2        *)
(* physical cores and more than 16 GiB of memory; on any other host every *)
(* operation (percentiles, t90, t10, monthly_max, wind_power,             *)
(* wind_thresholds) takes the single-threaded path and returns computed   *)
(* results.                                                               *)
C28_ParallelOnlyWithResources ==
    (call.op # "none" /\ ret.kind = "returned") =>
        LET sufficient == /\ array.host.num_cores > 2
                          /\ array.host.total_memory > 16 * 1024
        IN /\ ret.val.path = "dask" => sufficient
           /\ ~sufficient => (ret.val.path = "single-threaded" /\ ret.val.computed)

(* C29: the six series stamp a calendar month with one and the same      *)
(* timestamp (the sea-level table after its shift to the month end), and *)
(* the composite table has exactly one row in every month in which each  *)
(* of the six series has a value.                                        *)
StampsOfMonth(in, m) ==
    {t \in UNION {DOMAIN in[c] : c \in HazardColumns} : t.month = m}
        \cup {PlusMonthEnd(s) : s \in {u \in DOMAIN in.sea_lev : u.month = m}}

AllHazardsHaveValue(in, m) ==
    /\ \A c \in HazardColumns : \E t \in DOMAIN in[c] : t.month = m /\ ~in[c][t].nan
    /\ \E s \in DOMAIN in.sea_lev : s.month = m /\ ~StationMean(in.sea_lev[s]).nan

C30_ThresholdForEveryTimestamp ==
    (/\ call.op = "wind_thresholds"
     /\ "v10" \in DOMAIN v10.vars
     /\ \E d \in WindDays : InPeriod(WindTime(d), call.reference_period)) =>
        /\ ret.kind = "returned"
        /\ DOMAIN ret.val = WindDays
        /\ \A d \in WindDays : ret.val[d].time = WindTime(d)

====
